---- MODULE Spec2Model ----
(***************************************************************************)
(* Model of the Stopwatch class of src/src/Stopwatch.js: the frame-driven  *)
(* clock (start / pause / stop / frame), the alarm list (setAlarm /        *)
(* clearAlarm and the per-frame evaluation) and the event object           *)
(* (on / off / execute), together with the window's animation-frame queue. *)
(***************************************************************************)
EXTENDS Integers, Sequences, FiniteSets, TLC

\* ---------------------------------------------------------------- bounds
MaxTime == 2        \* largest timestamp the frame clock reaches
MaxAlarms == 2      \* largest length of the alarms list
MaxAlarmTime == 2   \* largest alarmTime passed to setAlarm
MaxCallbacks == 1   \* largest number of callbacks on one event name
MaxLateTime == 3    \* largest timestamp when a second run is followed

\* ---------------------------------------------------- JavaScript values
\* A value is a record: its kind k and, for a number or a boolean, its
\* payload n.
Num(n) == [k |-> "number", n |-> n]
NaN == [k |-> "NaN", n |-> 0]
Undefined == [k |-> "undefined", n |-> 0]
Null == [k |-> "null", n |-> 0]
Str == [k |-> "string", n |-> 0]
True == [k |-> "boolean", n |-> 1]
False == [k |-> "boolean", n |-> 0]
TypeError == [k |-> "TypeError", n |-> 0]

\* x == null
EqNull(x) == x.k \in {"null", "undefined"}

\* ToNumber of the operands of the arithmetic and relational operators
ToNumber(x) ==
    CASE x.k = "number" -> x
      [] x.k = "null" -> Num(0)
      [] OTHER -> NaN

\* a + b on numeric operands
Plus(a, b) ==
    LET x == ToNumber(a)
        y == ToNumber(b)
    IN IF x.k = "number" /\ y.k = "number" THEN Num(x.n + y.n) ELSE NaN

\* a - b
Minus(a, b) ==
    LET x == ToNumber(a)
        y == ToNumber(b)
    IN IF x.k = "number" /\ y.k = "number" THEN Num(x.n - y.n) ELSE NaN

\* a <= b : false as soon as one side is NaN
LessEq(a, b) ==
    LET x == ToNumber(a)
        y == ToNumber(b)
    IN x.k = "number" /\ y.k = "number" /\ x.n <= y.n

\* a == b on the entries of the alarm lists (numbers or NaN)
LooseEq(a, b) == a.k = "number" /\ b.k = "number" /\ a.n = b.n

\* ------------------------------------------------------------ the inputs
\* the members of this.event that on / off are called with, and a name
\* that is no member
EventNames == {"update", "alarm", "execute", "tick"}

\* the names the stopwatch's clients pass to on / off
ClientNames == {"update", "alarm"}

\* a callback is named after the command it issues on the stopwatch
Callbacks == {"start", "pause", "stop"}

\* alarmTime arguments: numbers from zero up and a non-number
AlarmTimes == {Num(n) : n \in 0..MaxAlarmTime} \cup {Str}

\* alarmType arguments: omitted, the two AlarmType instances, another object
AlarmTypes == {"default", "RELATIVE", "ABSOLUTE", "object"}

Array(cbs) == [k |-> "array", cbs |-> cbs]
Function == [k |-> "function", cbs |-> <<>>]
Missing == [k |-> "undefined", cbs |-> <<>>]

\* ------------------------------------------------------------- the state
VARIABLES
    sw,     \* the Stopwatch object: startTime, time, frameTime, paused,
            \* rafId, event, alarms, completeAlarms
    win,    \* the window: registered animation-frame callbacks, the clock
    hist    \* history of the run, read by the properties only

vars == <<sw, win, hist>>

World == [sw |-> sw, win |-> win, hist |-> hist, ret |-> Undefined]

\* the history before any call
NoPause == [st |-> "none", e |-> Undefined, last |-> 0, at |-> 0, gap |-> 0,
            bound |-> Undefined, got |-> Undefined]

\* constructor
NewStopwatch ==
    [ startTime |-> Undefined,
      time |-> Undefined,
      frameTime |-> Undefined,
      paused |-> FALSE,
      rafId |-> Undefined,
      event |-> [name \in EventNames |->
                    CASE name \in {"update", "alarm"} -> Array(<<>>)
                      [] name = "execute" -> Function
                      [] OTHER -> Missing],
      alarms |-> <<>>,
      completeAlarms |-> <<>> ]

\* the arguments of a call that takes none
NoArgs == [alarmTime |-> Undefined, alarmType |-> "none",
           eventName |-> "none", callback |-> "none"]

\* track names what the history follows: the calls and their results, the
\* calls that take arguments with their arguments, the runs (their pauses and stops), the
\* entries of alarms, or the deadlines registered again after clearAlarm()
NewHistory(track) ==
    [track |-> track,
     call |-> [op |-> "new", ret |-> Undefined],
     args |-> NoArgs,
     offAll |-> FALSE,
     cleared |-> {},
     re |-> <<>>,
     started |-> FALSE,
     stopped |-> FALSE,
     pz |-> NoPause,
     regs |-> <<>>]

InitWith(track) ==
    /\ sw = NewStopwatch
    /\ win = [registered |-> {}, now |-> 0, lastFrame |-> -1]
    /\ hist = NewHistory(track)

Init == InitWith("calls")

\* ------------------------------------------------------------ the window
\* window.requestAnimationFrame( frame ): a handle no registration uses
requestAnimationFrame(W) ==
    LET used == W.win.registered \cup
                (IF W.sw.rafId.k = "number" THEN {W.sw.rafId.n} ELSE {})
        h == CHOOSE i \in 1..(Cardinality(used) + 1) : i \notin used
    IN [W EXCEPT !.win.registered = @ \cup {h}, !.ret = Num(h)]

\* window.cancelAnimationFrame( id )
cancelAnimationFrame(W, id) ==
    [W EXCEPT !.win.registered =
                 @ \ (IF id.k = "number" THEN {id.n} ELSE {})]

\* ----------------------------------------------------------- the methods
\* start() without the test that a frame is already requested
start_Reregisters(W) ==
    IF W.sw.paused = TRUE
    THEN [W EXCEPT !.sw.paused = FALSE, !.ret = True]
    ELSE LET R == requestAnimationFrame(W)
         IN [R EXCEPT !.sw.rafId = R.ret, !.ret = True]

start(W) ==
    IF W.sw.paused = TRUE
    THEN [W EXCEPT !.sw.paused = FALSE, !.ret = True]
    ELSE IF ~EqNull(W.sw.rafId)
    THEN [W EXCEPT !.ret = False]
    ELSE LET R == requestAnimationFrame(W)
         IN [R EXCEPT !.sw.rafId = R.ret, !.ret = True]

\* pause() without the test that the stopwatch is already paused
pause_IgnoresPaused(W) ==
    IF EqNull(W.sw.rafId)
    THEN [W EXCEPT !.ret = False]
    ELSE [W EXCEPT !.sw.paused = TRUE, !.ret = True]

pause(W) ==
    IF EqNull(W.sw.rafId)
    THEN [W EXCEPT !.ret = False]
    ELSE IF W.sw.paused = TRUE
    THEN [W EXCEPT !.ret = False]
    ELSE [W EXCEPT !.sw.paused = TRUE, !.ret = True]

\* stop() that empties the alarms too
stop_ClearsAlarms(W) ==
    IF EqNull(W.sw.startTime)
    THEN [W EXCEPT !.ret = False]
    ELSE LET C == cancelAnimationFrame(W, W.sw.rafId)
         IN [C EXCEPT !.sw.rafId = Null,
                      !.sw.startTime = Null,
                      !.sw.paused = FALSE,
                      !.sw.alarms = <<>>,
                      !.sw.completeAlarms = <<>>,
                      !.ret = True]

stop(W) ==
    IF EqNull(W.sw.startTime)
    THEN [W EXCEPT !.ret = False]
    ELSE LET C == cancelAnimationFrame(W, W.sw.rafId)
         IN [C EXCEPT !.sw.rafId = Null,
                      !.sw.startTime = Null,
                      !.sw.paused = FALSE,
                      !.sw.completeAlarms = <<>>,
                      !.ret = True]

get(W) == W.sw.time

getAlarms(W) == W.sw.alarms

\* AlarmType.timeCalculation( time, alarmTime ) of the two instances
timeCalculation(alarmType, time, alarmTime) ==
    IF alarmType = "RELATIVE" THEN Plus(time, alarmTime) ELSE alarmTime

\* setAlarm() whose ABSOLUTE test lets an alarm at the current time pass
setAlarm_AcceptsNow(W, alarmTime, alarmTypeArg) ==
    LET alarmType == IF alarmTypeArg = "default" THEN "RELATIVE"
                     ELSE alarmTypeArg
        time == get(W)
    IN IF alarmTime.k \notin {"number", "NaN"}
       THEN [W EXCEPT !.ret = False]
       ELSE IF LessEq(alarmTime, Num(0))
       THEN [W EXCEPT !.ret = False]
       ELSE IF alarmType \notin {"RELATIVE", "ABSOLUTE"}
       THEN [W EXCEPT !.ret = False]
       ELSE IF alarmType = "ABSOLUTE" /\ LessEq(alarmTime, time)
                                     /\ ~LooseEq(alarmTime, time)
       THEN [W EXCEPT !.ret = False]
       ELSE [W EXCEPT !.sw.alarms =
                         Append(@, timeCalculation(alarmType, time, alarmTime)),
                      !.ret = Undefined]

setAlarm(W, alarmTime, alarmTypeArg) ==
    LET alarmType == IF alarmTypeArg = "default" THEN "RELATIVE"
                     ELSE alarmTypeArg
        time == get(W)
    IN IF alarmTime.k \notin {"number", "NaN"}
       THEN [W EXCEPT !.ret = False]
       ELSE IF LessEq(alarmTime, Num(0))
       THEN [W EXCEPT !.ret = False]
       ELSE IF alarmType \notin {"RELATIVE", "ABSOLUTE"}
       THEN [W EXCEPT !.ret = False]
       ELSE IF alarmType = "ABSOLUTE" /\ LessEq(alarmTime, time)
       THEN [W EXCEPT !.ret = False]
       ELSE [W EXCEPT !.sw.alarms =
                         Append(@, timeCalculation(alarmType, time, alarmTime)),
                      !.ret = Undefined]

clearAlarm(W) ==
    [W EXCEPT !.sw.alarms = <<>>, !.sw.completeAlarms = <<>>, !.ret = True]

on(W, eventName, callback) ==
    LET callbacks == W.sw.event[eventName]
    IN IF callbacks.k = "undefined"
       THEN [W EXCEPT !.ret = False]
       ELSE IF callbacks.k = "function"
       THEN [W EXCEPT !.ret = TypeError]      \* callbacks.push is no function
       ELSE [W EXCEPT !.sw.event[eventName] = Array(Append(callbacks.cbs, callback)),
                      !.ret = True]

\* callbacks.indexOf( callback ): 0 when absent (the code's -1)
indexOf(cbs, callback) ==
    IF \E i \in 1..Len(cbs) : cbs[i] = callback
    THEN CHOOSE i \in 1..Len(cbs) :
            cbs[i] = callback /\ \A j \in 1..(i - 1) : cbs[j] # callback
    ELSE 0

\* callbacks.splice( index, 1 ): index -1 (here 0) counts from the end
splice(cbs, index) ==
    LET at == IF index = 0 THEN Len(cbs) ELSE index
    IN [i \in 1..(IF Len(cbs) = 0 THEN 0 ELSE Len(cbs) - 1) |->
           IF i < at THEN cbs[i] ELSE cbs[i + 1]]

\* eventName and callback are "none" when the argument is omitted
off(W, eventName, callback) ==
    IF eventName = "none"
    THEN [W EXCEPT !.sw.event = [name \in EventNames |->
                                    IF @[name].k = "undefined" THEN @[name]
                                    ELSE Array(<<>>)],
                   !.ret = True]
    ELSE IF callback = "none"
    THEN [W EXCEPT !.sw.event[eventName] = Array(<<>>), !.ret = True]
    ELSE LET callbacks == W.sw.event[eventName]
         IN IF callbacks.k # "array"
            THEN [W EXCEPT !.ret = TypeError] \* callbacks.indexOf fails
            ELSE [W EXCEPT !.sw.event[eventName] =
                              Array(splice(callbacks.cbs,
                                           indexOf(callbacks.cbs, callback))),
                           !.ret = True]

\* ------------------------------------------------------------ the history
\* What the properties need to know about a call, recorded from the state
\* before (W) and after (R) it: whether the stopwatch is started, the pause
\* being measured, and one record per entry of alarms.
Record(op, W, R, alarmTime, alarmTypeArg) ==
    LET h == R.hist
        reset(rel) == [i \in 1..Len(h.regs) |->
                         [rel |-> rel /\ h.regs[i].rel, t0 |-> h.regs[i].t0,
                          v |-> h.regs[i].v, n |-> 0]]
    IN CASE op = "start" /\ R.ret = True /\ W.sw.paused = TRUE ->
              IF h.pz.st = "paused"
              THEN [R EXCEPT !.hist.pz.st = "resumed",
                             !.hist.pz.gap = W.win.now - h.pz.at]
              ELSE R
         [] op = "start" /\ R.ret = True /\ W.sw.paused # TRUE ->
              [R EXCEPT !.hist.started = TRUE,
                        !.hist.pz = NoPause,
                        !.hist.regs = reset(TRUE)]
         [] op = "pause" /\ R.ret = True ->
              IF /\ h.track = "runs"
                 /\ ~EqNull(W.sw.startTime) /\ W.sw.time.k = "number"
              THEN [R EXCEPT !.hist.pz =
                                [NoPause EXCEPT !.st = "paused",
                                                !.e = W.sw.time,
                                                !.last = W.win.lastFrame,
                                                !.at = W.win.now]]
              ELSE [R EXCEPT !.hist.pz = NoPause]
         [] op = "stop" /\ R.ret = True ->
              [R EXCEPT !.hist.started = FALSE,
                        !.hist.stopped = (h.track = "runs"),
                        !.hist.pz = NoPause,
                        !.hist.regs = reset(FALSE)]
         [] /\ op = "setAlarm" /\ Len(R.sw.alarms) > Len(W.sw.alarms)
            /\ h.track = "alarms" ->
              [R EXCEPT !.hist.regs = Append(h.regs,
                  [rel |-> alarmTypeArg \in {"default", "RELATIVE"}
                           /\ h.started,
                   t0 |-> IF W.sw.time.k = "number" THEN W.sw.time ELSE Num(0),
                   v |-> alarmTime,
                   n |-> 0])]
         [] /\ op = "setAlarm" /\ Len(R.sw.alarms) > Len(W.sw.alarms)
            /\ h.track = "again" ->
              LET deadline == R.sw.alarms[Len(R.sw.alarms)]
              IN [R EXCEPT !.hist.re = Append(h.re,
                     [again |-> deadline.k = "number"
                                /\ deadline.n \in h.cleared,
                      fired |-> FALSE])]
         [] op = "clearAlarm" /\ h.track = "again" ->
              [R EXCEPT !.hist.re = <<>>,
                        !.hist.cleared =
                           {W.sw.completeAlarms[c].n :
                              c \in 1..Len(W.sw.completeAlarms)}]
         [] op = "clearAlarm" ->
              [R EXCEPT !.hist.regs = <<>>]
         [] OTHER -> R

\* off() with no arguments has been called
RecordOff(R, eventName) ==
    IF eventName = "none" THEN [R EXCEPT !.hist.offAll = TRUE] ELSE R

\* a callback applied to the stopwatch
Apply(cb, W) ==
    CASE cb = "start" -> Record("start", W, start(W), Undefined, "default")
      [] cb = "pause" -> Record("pause", W, pause(W), Undefined, "default")
      [] cb = "stop" -> Record("stop", W, stop(W), Undefined, "default")
      [] OTHER -> W

\* ------------------------------------------------------------- the frame
RECURSIVE forEach(_, _, _)
\* callbacks.forEach( cb => cb.apply( self, args ) )
forEach(W, cbs, i) ==
    IF i > Len(cbs) THEN W ELSE forEach(Apply(cbs[i], W), cbs, i + 1)

\* this.event.execute( name, args... )
execute(W, name) ==
    IF W.sw.event["execute"].k # "function"
    THEN [W EXCEPT !.ret = TypeError]       \* execute is no function
    ELSE [forEach(W, W.sw.event[name].cbs, 1) EXCEPT !.ret = Undefined]

\* the indices of self.alarms that self.alarms.filter( ... ) keeps
filter(W) ==
    LET keep(i) ==
            LET alarmTime == W.sw.alarms[i]
                isComplete == \E c \in 1..Len(W.sw.completeAlarms) :
                                 LooseEq(W.sw.completeAlarms[c], alarmTime)
            IN ~isComplete /\ LessEq(alarmTime, W.sw.time)
        idx == [i \in 1..Len(W.sw.alarms) |-> i]
    IN [i \in 1..Len(SelectSeq(idx, keep)) |->
           [at |-> SelectSeq(idx, keep)[i],
            alarmTime |-> W.sw.alarms[SelectSeq(idx, keep)[i]]]]

RECURSIVE alarmLoop(_, _, _)
\* for( let i=0; i<alarms.length; ++i ){ execute; completeAlarms.push }
alarmLoop(W, alarms, i) ==
    IF i > Len(alarms) THEN W
    ELSE LET E == execute(W, "alarm")
         IN IF E.ret = TypeError THEN E
            ELSE alarmLoop(
                   [E EXCEPT !.sw.completeAlarms = Append(@, alarms[i].alarmTime),
                             !.hist.regs = IF E.hist.track = "alarms"
                                           THEN [@ EXCEPT ![alarms[i].at].n = @ + 1]
                                           ELSE @,
                             !.hist.re = IF E.hist.track = "again"
                                         THEN [@ EXCEPT ![alarms[i].at].fired = TRUE]
                                         ELSE @],
                   alarms, i + 1)

\* function frame( time ) up to the dispatch of "update" (lines 89-100)
frameUpdate(W0, time) ==
    LET R == requestAnimationFrame(W0)
        W1 == [R EXCEPT !.sw.rafId = R.ret]
        W2 == IF EqNull(W1.sw.startTime)
              THEN [W1 EXCEPT !.sw.startTime = time] ELSE W1
        W3 == IF W2.sw.paused = TRUE
              THEN [W2 EXCEPT !.sw.startTime =
                                 Plus(@, Minus(time, W2.sw.frameTime))]
              ELSE W2
        W4 == [W3 EXCEPT !.sw.frameTime = time,
                         !.sw.time = Minus(time, W3.sw.startTime)]
    IN execute(W4, "update")

\* function frame( time ), called by the window with the timestamp
frame(W0, time) ==
    LET W5 == frameUpdate(W0, time)
    IN IF W5.ret = TypeError THEN W5
       ELSE alarmLoop(W5, filter(W5), 1)

\* ------------------------------------------------------------ the actions
\* the world after a call, with the call and its result noted in the history
Noted(op, R) ==
    IF R.hist.track \in {"calls", "again"}
    THEN [R EXCEPT !.hist.call = [op |-> op, ret |-> R.ret]]
    ELSE IF R.hist.track = "args"
    THEN [R EXCEPT !.hist.call = [op |-> "other", ret |-> Undefined],
                   !.hist.args = NoArgs]
    ELSE R

\* the same, with the arguments of the call
NotedWith(op, R, args) ==
    IF R.hist.track = "args"
    THEN [R EXCEPT !.hist.call = [op |-> op, ret |-> R.ret],
                   !.hist.args = args]
    ELSE Noted(op, R)

Start ==
    LET R == Noted("start", Record("start", World, start(World),
                                   Undefined, "default"))
    IN /\ sw' = R.sw
       /\ win' = R.win
       /\ hist' = R.hist

Pause ==
    LET R == Noted("pause", Record("pause", World, pause(World),
                                   Undefined, "default"))
    IN /\ sw' = R.sw
       /\ win' = R.win
       /\ hist' = R.hist

Stop ==
    LET R == Noted("stop", Record("stop", World, stop(World),
                                  Undefined, "default"))
    IN /\ sw' = R.sw
       /\ win' = R.win
       /\ hist' = R.hist

SetAlarm ==
    \E alarmTime \in AlarmTimes, alarmType \in AlarmTypes :
        /\ Len(sw.alarms) < MaxAlarms
        /\ LET R == NotedWith("setAlarm",
                              Record("setAlarm", World,
                                     setAlarm(World, alarmTime, alarmType),
                                     alarmTime, alarmType),
                              [NoArgs EXCEPT !.alarmTime = alarmTime,
                                             !.alarmType = alarmType])
           IN /\ sw' = R.sw
              /\ win' = R.win
              /\ hist' = R.hist

ClearAlarm ==
    LET R == Noted("clearAlarm", Record("clearAlarm", World, clearAlarm(World),
                                        Undefined, "default"))
    IN /\ sw' = R.sw
       /\ win' = R.win
       /\ hist' = R.hist

\* on() with a callback that pauses or stops the stopwatch
On ==
    \E eventName \in ClientNames, callback \in {"pause", "stop"} :
        /\ Len(sw.event[eventName].cbs) < MaxCallbacks
        /\ LET R == Noted("on", on(World, eventName, callback))
           IN /\ sw' = R.sw
              /\ win' = R.win
              /\ hist' = R.hist

\* on( "update", callback ) with any callback
OnUpdate ==
    \E callback \in Callbacks :
        /\ Len(sw.event["update"].cbs) < MaxCallbacks
        /\ LET R == Noted("on", on(World, "update", callback))
           IN /\ sw' = R.sw
              /\ win' = R.win
              /\ hist' = R.hist

\* on( eventName, callback ) with any member name of this.event, or none
OnAny ==
    \E eventName \in EventNames, callback \in Callbacks :
        /\ Len(sw.event[eventName].cbs) < MaxCallbacks
        /\ LET R == NotedWith("on", on(World, eventName, callback),
                              [NoArgs EXCEPT !.eventName = eventName,
                                             !.callback = callback])
           IN /\ sw' = R.sw
              /\ win' = R.win
              /\ hist' = R.hist

\* off( eventName, callback ) with any member name of this.event, or none
OffAny ==
    \E eventName \in EventNames \cup {"none"}, callback \in Callbacks \cup {"none"} :
        /\ eventName = "none" => callback = "none"
        /\ LET R == NotedWith("off",
                              RecordOff(off(World, eventName, callback),
                                        eventName),
                              [NoArgs EXCEPT !.eventName = eventName,
                                             !.callback = callback])
           IN /\ sw' = R.sw
              /\ win' = R.win
              /\ hist' = R.hist

Off ==
    \E eventName \in ClientNames \cup {"none"}, callback \in Callbacks \cup {"none"} :
        /\ eventName = "none" => callback = "none"
        /\ LET R == Noted("off", RecordOff(off(World, eventName, callback),
                                          eventName))
           IN /\ sw' = R.sw
              /\ win' = R.win
              /\ hist' = R.hist

\* the window runs one registered frame callback with the clock's timestamp,
\* later than the timestamp of the frame before
Frame ==
    \E h \in win.registered :
        /\ win.now > win.lastFrame
        /\ LET W0 == [World EXCEPT !.win.registered = @ \ {h},
                                   !.win.lastFrame = win.now]
               F == frame(W0, Num(win.now))
               p == hist.pz
               R == Noted("frame",
                          IF p.st = "resumed" /\ F.hist.pz = p
                          THEN [F EXCEPT !.hist.pz.st = "checked",
                                         !.hist.pz.got = F.sw.time,
                                         !.hist.pz.bound =
                                            Num(p.e.n + (win.now - p.last) - p.gap)]
                          ELSE F)
           IN /\ sw' = R.sw
              /\ win' = R.win
              /\ hist' = R.hist

\* time passes
Advance ==
    /\ win.now < MaxTime
    /\ win' = [win EXCEPT !.now = @ + 1]
    /\ hist' = Noted("advance", World).hist
    /\ UNCHANGED sw

\* time passes, far enough for a second run to reach a deadline of the first
Later ==
    /\ win.now < MaxLateTime
    /\ win' = [win EXCEPT !.now = @ + 1]
    /\ hist' = Noted("advance", World).hist
    /\ UNCHANGED sw

Next ==
    \/ Start
    \/ Pause
    \/ Stop
    \/ SetAlarm
    \/ ClearAlarm
    \/ On
    \/ Off
    \/ Frame
    \/ Advance

Spec == Init /\ [][Next]_vars

\* the clock alone: the clients set no alarm, so that no alarm callback
\* would run, and register update callbacks that start, pause or stop
NextClock ==
    \/ Start
    \/ Pause
    \/ Stop
    \/ OnUpdate
    \/ Off
    \/ Frame
    \/ Advance

SpecClock == Init /\ [][NextClock]_vars

\* the clock and the alarms without callbacks, the history following the
\* calls (SpecAlarmClock) or the arguments of setAlarm (SpecAlarmCalls)
NextAlarms ==
    \/ Start
    \/ Pause
    \/ Stop
    \/ SetAlarm
    \/ ClearAlarm
    \/ Frame
    \/ Advance

SpecAlarmClock == Init /\ [][NextAlarms]_vars

SpecAlarmCalls == InitWith("args") /\ [][NextAlarms]_vars

\* the event object alone, under on and off with any name, the history
\* following the calls with their arguments
NextEvents ==
    \/ OnAny
    \/ OffAny

SpecEvents == InitWith("args") /\ [][NextEvents]_vars

\* the clock, the alarms and off() over two runs, the history following the
\* deadlines that are registered again after clearAlarm()
NextAgain ==
    \/ Start
    \/ Stop
    \/ SetAlarm
    \/ ClearAlarm
    \/ Off
    \/ Frame
    \/ Later

SpecAgain == InitWith("again") /\ [][NextAgain]_vars

\* the same program, the history following the runs
SpecRuns == InitWith("runs") /\ [][Next]_vars

\* the same program, the history following the entries of alarms
SpecAlarms == InitWith("alarms") /\ [][Next]_vars

TypeOK ==
    /\ sw.paused \in BOOLEAN
    /\ Len(sw.alarms) <= MaxAlarms
    /\ hist.track = "alarms" => Len(hist.regs) = Len(sw.alarms)
    /\ hist.track = "again" => Len(hist.re) = Len(sw.alarms)
    /\ win.now \in 0..MaxLateTime

\* ------------------------------------------------------------ properties
\* a frame has just run
FrameStep == win'.lastFrame # win.lastFrame

\* C1: when pause() succeeds at get() = e and a later start() resumes, the
\* first frame after the resume leaves get() at most e plus the time since e
\* was computed minus the gap between the pause and the resume: the paused
\* time is not added to the elapsed time, whatever number of frames ran
\* while paused.
C1_PausedTimeExcluded ==
    hist.pz.st = "checked" => LessEq(hist.pz.got, hist.pz.bound)

\* C2: a RELATIVE alarm registered with setAlarm(v) while the stopwatch is
\* started, at elapsed time t0 (0 before the first frame of the first run),
\* has been dispatched exactly once as soon as a frame computed an elapsed
\* time >= t0 + v, and not at all before.
C2_RelativeAlarmFiresOnce ==
    \A i \in 1..Len(hist.regs) :
        hist.regs[i].rel =>
            /\ hist.regs[i].n <= 1
            /\ hist.regs[i].n = 1 <=>
                  LessEq(Plus(hist.regs[i].t0, hist.regs[i].v), sw.time)

RECURSIVE Dispatches(_, _)
\* the alarm dispatches made for the deadline value d since the last
\* start(), stop() or clearAlarm(), over the first i entries of alarms
Dispatches(d, i) ==
    IF i = 0 THEN 0
    ELSE Dispatches(d, i - 1) +
         (IF LooseEq(sw.alarms[i], d) THEN hist.regs[i].n ELSE 0)

\* C3: between a start() and the next stop() or clearAlarm() each deadline
\* value is dispatched at most once, also when alarms holds it more than
\* once, and a deadline that has fired is still in getAlarms().
C3_DeadlineFiresAtMostOnce ==
    /\ \A i \in 1..Len(sw.alarms) :
          Dispatches(sw.alarms[i], Len(sw.alarms)) <= 1
    /\ \A c \in 1..Len(sw.completeAlarms) :
          \E i \in 1..Len(sw.alarms) :
             LooseEq(getAlarms(World)[i], sw.completeAlarms[c])

\* C4: after a successful stop(), the first frame of the next run sets get()
\* to 0 and every later frame of that run gives get() >= 0, whatever was
\* called between the start() and its first frame.
C4_RestartFromZero ==
    [][FrameStep /\ hist.stopped =>
          IF EqNull(sw.startTime)
          THEN sw'.time = Num(0)
          ELSE LessEq(Num(0), sw'.time)]_vars

\* C5: a frame that runs while the paused flag is set leaves get() as it was.
C5_FrozenWhilePaused ==
    [][FrameStep /\ sw.paused = TRUE => get(World)' = get(World)]_vars

\* C6: within a run, the elapsed time a frame computes is greater than or
\* equal to the one the frame before it computed.
C6_ElapsedMonotonic ==
    [][FrameStep /\ ~EqNull(sw.startTime) => LessEq(sw.time, sw'.time)]_vars

\* C7: stop() on a started stopwatch returns true, leaves no frame
\* registered and clears startTime, paused and completeAlarms; it returns
\* false only on a stopwatch that is not started.
C7_StopWhenStarted ==
    [][hist'.call.op = "stop" =>
          /\ hist.started =>
                /\ hist'.call.ret = True
                /\ win'.registered = {}
                /\ EqNull(sw'.startTime)
                /\ sw'.paused = FALSE
                /\ sw'.completeAlarms = <<>>
          /\ hist'.call.ret = False => ~hist.started]_vars

\* the callbacks registered on the two dispatched events
Listeners ==
    {sw.event[name].cbs[i] : <<name, i>> \in
        {x \in {"update", "alarm"} \X (1..MaxCallbacks) :
            x[2] <= Len(sw.event[x[1]].cbs)}}

\* C8: at most one frame registration is outstanding; start() on a running,
\* unpaused stopwatch returns false and changes nothing; a resuming start()
\* registers nothing; only a stop() (called by the client or by a callback
\* during a frame) leaves the stopwatch without registration.
C8_OneRegistration ==
    /\ [](Cardinality(win.registered) <= 1)
    /\ [][/\ hist'.call.op = "start" /\ win.registered # {} =>
                /\ win'.registered = win.registered
                /\ sw.paused = FALSE =>
                      hist'.call.ret = False /\ sw' = sw /\ win' = win
          /\ win.registered # {} /\ win'.registered = {} =>
                \/ hist'.call.op = "stop"
                \/ hist'.call.op = "frame" /\ "stop" \in Listeners]_vars

\* start() was refused on a stopwatch whose frames are running
C8_Witness ==
    /\ hist.call = [op |-> "start", ret |-> False]
    /\ Cardinality(win.registered) = 1
    /\ sw.time.k = "number"
    /\ sw.paused = FALSE

\* C9: pause() returns false and changes nothing when the stopwatch is not
\* started or is already paused; otherwise it sets paused, keeps the frame
\* registration and returns true.
C9_PauseResult ==
    [][hist'.call.op = "pause" =>
          IF ~hist.started \/ sw.paused = TRUE
          THEN hist'.call.ret = False /\ sw' = sw /\ win' = win
          ELSE /\ hist'.call.ret = True
               /\ sw' = [sw EXCEPT !.paused = TRUE]
               /\ win'.registered = win.registered
               /\ win'.registered # {}]_vars

\* a second pause() in a row was refused
C9_Witness ==
    /\ hist.call = [op |-> "pause", ret |-> False]
    /\ sw.paused = TRUE
    /\ win.registered # {}

\* C10: setAlarm returns true exactly when it appends a deadline to alarms,
\* and false, with alarms unchanged, otherwise.
C10_SetAlarmResult ==
    [][hist'.call.op = "setAlarm" =>
          /\ hist'.call.ret \in {True, False}
          /\ hist'.call.ret = True <=>
                Len(sw'.alarms) = Len(sw.alarms) + 1
          /\ hist'.call.ret = False => sw'.alarms = sw.alarms]_vars

C12_ClearThenFireAgain ==
    [][/\ hist'.call.op = "clearAlarm" =>
            /\ hist'.call.ret = True
            /\ getAlarms(World)' = <<>>
            /\ sw'.completeAlarms = <<>>
       /\ FrameStep =>
            \A i \in 1..Len(hist.re) :
               /\ hist.re[i].again
               /\ ~hist.re[i].fired
               /\ LessEq(sw.alarms[i], sw'.time)
               => hist'.re[i].fired]_vars

\* the same, for the frames that find this.event.execute in place
C12_FireAgainWhileExecuteIsAFunction ==
    [][FrameStep /\ sw.event["execute"].k = "function" =>
            \A i \in 1..Len(hist.re) :
               /\ hist.re[i].again
               /\ ~hist.re[i].fired
               /\ LessEq(sw.alarms[i], sw'.time)
               => hist'.re[i].fired]_vars

\* C13: the deadlines dispatched and pushed to completeAlarms during a run
\* form a non-decreasing sequence, across frames and within one frame,
\* whatever order they were registered in.
C13_TimestampOrder ==
    \A i, j \in 1..Len(sw.completeAlarms) :
       i < j => LessEq(sw.completeAlarms[i], sw.completeAlarms[j])

\* the index of the first occurrence of callback in cbs, 0 when there is none
FirstOccurrence(cbs, callback) ==
    IF \E i \in 1..Len(cbs) : cbs[i] = callback
    THEN CHOOSE i \in 1..Len(cbs) :
            cbs[i] = callback /\ \A j \in 1..(i - 1) : cbs[j] # callback
    ELSE 0

\* C14: off(eventName, callback) on the update or alarm channel removes
\* exactly the first occurrence of callback and returns true, the other
\* callbacks staying in their order; when callback is not registered on the
\* channel, the channel is left as it was.
C14_OffRemovesThatCallback ==
    [][/\ hist'.call.op = "off"
       /\ hist'.args.eventName \in {"update", "alarm"}
       /\ hist'.args.callback # "none"
       => LET name == hist'.args.eventName
              cbs == sw.event[name].cbs
              at == FirstOccurrence(cbs, hist'.args.callback)
          IN IF at = 0
             THEN sw'.event = sw.event
             ELSE /\ hist'.call.ret = True
                  /\ sw'.event =
                        [sw.event EXCEPT ![name].cbs =
                            SubSeq(cbs, 1, at - 1) \o SubSeq(cbs, at + 1, Len(cbs))]]_vars

\* C15: on(eventName, callback) returns false and leaves every member of
\* event as it was for every eventName other than "update" and "alarm",
\* "execute" included; for "update" and "alarm" it appends callback to that
\* channel and returns true.
C15_OnKnowsTwoNames ==
    [][hist'.call.op = "on"
       => LET name == hist'.args.eventName
          IN IF name \in {"update", "alarm"}
             THEN /\ hist'.call.ret = True
                  /\ sw'.event = [sw.event EXCEPT ![name].cbs =
                                      Append(@, hist'.args.callback)]
             ELSE /\ hist'.call.ret = False
                  /\ sw'.event = sw.event]_vars

\* C16: off() without arguments leaves the update and alarm channels empty,
\* and every frame after it completes: it sets the elapsed time, marks every
\* due deadline fired when no callback is registered, and dispatches the
\* callbacks registered since (an update listener that pauses does pause).
C16_EngineWorksAfterOffAll ==
    [][/\ hist'.offAll /\ ~hist.offAll =>
            /\ sw'.event["update"].cbs = <<>>
            /\ sw'.event["alarm"].cbs = <<>>
       /\ FrameStep /\ hist.offAll =>
            /\ hist'.call.ret # TypeError
            /\ sw'.frameTime = Num(win.now)
            /\ sw.event["update"].cbs = <<>> /\ sw.event["alarm"].cbs = <<>> =>
                  \A i \in 1..Len(sw.alarms) :
                     LessEq(sw.alarms[i], sw'.time) =>
                        \E c \in 1..Len(sw'.completeAlarms) :
                           LooseEq(sw'.completeAlarms[c], sw.alarms[i])
            /\ sw.event["update"].cbs = <<"pause">> /\ sw.paused = FALSE =>
                  sw'.paused = TRUE]_vars

\* the frame about to run, after its dispatch of "update"
AfterUpdate ==
    LET h == CHOOSE h \in win.registered : TRUE
    IN frameUpdate([World EXCEPT !.win.registered = @ \ {h},
                                !.win.lastFrame = win.now],
                   Num(win.now))

\* C17: a frame that is paused when it comes to evaluate the alarms (paused
\* before the frame, or by an update listener in this frame) dispatches no
\* alarm and adds no deadline to completeAlarms: it ends in the state its
\* update dispatch left.
C17_NoAlarmWhilePaused ==
    [][/\ FrameStep
       /\ AfterUpdate.ret # TypeError
       /\ AfterUpdate.sw.paused = TRUE
       => /\ filter(AfterUpdate) = <<>>
          /\ sw'.completeAlarms = AfterUpdate.sw.completeAlarms]_vars

\* C18: a stop() that returns true leaves get() and the alarms as they
\* were; of the stopwatch it changes only startTime, paused, rafId (the
\* frame registration, which it releases) and completeAlarms.
C18_StopKeepsTimeAndAlarms ==
    [][hist'.call = [op |-> "stop", ret |-> True] =>
          /\ get(World)' = get(World)
          /\ getAlarms(World)' = getAlarms(World)
          /\ sw' = [sw EXCEPT !.startTime = Null,
                              !.paused = FALSE,
                              !.rafId = Null,
                              !.completeAlarms = <<>>]
          /\ win'.registered = {}
          /\ win'.now = win.now]_vars

\* stop() returned true after an alarm had been dispatched at an elapsed
\* time above zero
C18_Witness ==
    /\ hist.call = [op |-> "stop", ret |-> True]
    /\ sw.time.k = "number" /\ sw.time.n > 0
    /\ \E i \in 1..Len(sw.alarms) : LessEq(sw.alarms[i], sw.time)
    /\ sw.completeAlarms = <<>>

\* C19: every entry of alarms is a number, greater than zero and greater
\* than the elapsed time at which it was registered, in whatever state
\* setAlarm was called.
C19_DeadlinesWellDefined ==
    \A i \in 1..Len(sw.alarms) :
       /\ sw.alarms[i].k = "number"
       /\ sw.alarms[i].n > 0
       /\ sw.alarms[i].n > hist.regs[i].t0.n

\* C20: a frame in which a listener stops the stopwatch ends with
\* completeAlarms empty: after the stop() no deadline is dispatched or
\* marked fired in that frame.
C20_StopInListenerEndsFrame ==
    [][FrameStep /\ hist.started /\ ~hist'.started =>
          sw'.completeAlarms = <<>>]_vars

====
